---- MODULE Spec2Model ----
(***************************************************************************)
(* Model of SnapshotJarProvider                                            *)
(* (crates/storage/provider/src/providers/snapshot/jar.rs): the read-only  *)
(* provider over one immutable snapshot segment, with an optional          *)
(* auxiliary provider over the transaction segment.                        *)
(*                                                                         *)
(* Row keys are u64.  TLC's integers are 32 bits wide, so a u64 is kept as *)
(* four 16-bit limbs, most significant first, and the arithmetic of the    *)
(* code (v + 1, end - start, comparisons) is done limb by limb, modulo     *)
(* 2^64.                                                                   *)
(***************************************************************************)
EXTENDS Integers, Sequences, FiniteSets, TLC

VARIABLES
    provider,         \* the SnapshotJarProvider: [jar, auxiliar_jar]
    overflow_checks,  \* build profile: TRUE = overflow checks on (debug)
    last_cursor,      \* the cursor of the last call, as the call left it
    ret               \* the last call, op :> [arg, res], its result as tag :> value

vars == <<provider, overflow_checks, last_cursor, ret>>

\* ------------------------------------------------------------------ bounds
MaxRows == 2
MaxSpan == 3

\* ------------------------------------------------------------------ u64
Limb == 65536

U64(n) == <<0, 0, 0, n>>

U64_MAX == <<Limb - 1, Limb - 1, Limb - 1, Limb - 1>>

U64_Lt(a, b) ==
    \E i \in 1..4 : a[i] < b[i] /\ \A j \in 1..(i - 1) : a[j] = b[j]

U64_Le(a, b) == a = b \/ U64_Lt(a, b)

\* a + b modulo 2^64, and whether the sum left the u64 domain
overflowing_add(a, b) ==
    LET s4 == a[4] + b[4]
        s3 == a[3] + b[3] + (s4 \div Limb)
        s2 == a[2] + b[2] + (s3 \div Limb)
        s1 == a[1] + b[1] + (s2 \div Limb)
    IN  [val |-> <<s1 % Limb, s2 % Limb, s3 % Limb, s4 % Limb>>,
         overflow |-> s1 >= Limb]

\* a - b modulo 2^64, and whether the difference left the u64 domain
overflowing_sub(a, b) ==
    LET d4 == a[4] - b[4]
        d3 == a[3] - b[3] - (IF d4 < 0 THEN 1 ELSE 0)
        d2 == a[2] - b[2] - (IF d3 < 0 THEN 1 ELSE 0)
        d1 == a[1] - b[1] - (IF d2 < 0 THEN 1 ELSE 0)
    IN  [val |-> <<d1 % Limb, d2 % Limb, d3 % Limb, d4 % Limb>>,
         overflow |-> d1 < 0]

\* a u64 below 2^16 as a number of the model
IsSmall(v) == v[1] = 0 /\ v[2] = 0 /\ v[3] = 0

ToNat(v) == v[4]

\* ------------------------------------------------------------------ Rust values
None == <<"None">>
Some(v) == <<"Some", v>>
IsSome(o) == o[1] = "Some"
Unwrap(o) == o[2]

Ok(v) == [tag |-> "Ok", val |-> v]
Err(e) == [tag |-> "Err", val |-> e]
Panic(m) == [tag |-> "Panic", val |-> m]
\* handle_alloc_error: the process aborts, nothing unwinds, nothing is returned
Abort(m) == [tag |-> "Abort", val |-> m]
IsOk(r) == r.tag = "Ok"

UnsupportedProvider == "ProviderError::UnsupportedProvider"
SenderRecoveryError == "BlockValidationError::SenderRecoveryError"

\* `a + b` and `a - b` as the build compiles them: a panic with overflow
\* checks on, wrapping without
Add(a, b) ==
    LET r == overflowing_add(a, b)
    IN  IF r.overflow /\ overflow_checks
        THEN Panic("attempt to add with overflow")
        ELSE Ok(r.val)

Sub(a, b) ==
    LET r == overflowing_sub(a, b)
    IN  IF r.overflow /\ overflow_checks
        THEN Panic("attempt to subtract with overflow")
        ELSE Ok(r.val)

Filter(o, P(_)) == IF IsSome(o) /\ P(Unwrap(o)) THEN o ELSE None
Map(o, F(_)) == IF IsSome(o) THEN Some(F(Unwrap(o))) ELSE None
AndThen(o, F(_)) == IF IsSome(o) THEN F(Unwrap(o)) ELSE None

\* ------------------------------------------------------------------ segments
\* A segment (jar) is [segment, start, rows, index]: its kind, the row key of
\* its first row, its rows (one record of columns each) and its hash index.
BlockHashes == {"hA", "hB", "hC"}
TxHashes == {"xA", "xB", "xC"}

HeaderRows ==
    << [Header |-> "H0", CompactU256 |-> <<"CompactU256", 10>>, BlockHash |-> "hA"],
       [Header |-> "H1", CompactU256 |-> <<"CompactU256", 20>>, BlockHash |-> "hB"],
       [Header |-> "H2", CompactU256 |-> <<"CompactU256", 30>>, BlockHash |-> "hC"],
       [Header |-> "H3", CompactU256 |-> <<"CompactU256", 40>>, BlockHash |-> "hD"] >>

TransactionRows ==
    << [TransactionSignedNoHash |-> "t0"],
       [TransactionSignedNoHash |-> "t1"],
       [TransactionSignedNoHash |-> "t2"],
       [TransactionSignedNoHash |-> "t3"] >>

\* A transaction segment all of whose signers can be recovered
TransactionRowsRecoverable ==
    << [TransactionSignedNoHash |-> "t0"],
       [TransactionSignedNoHash |-> "t2"],
       [TransactionSignedNoHash |-> "t3"],
       [TransactionSignedNoHash |-> "t4"] >>

ReceiptRows ==
    << [Receipt |-> "r0"], [Receipt |-> "r1"], [Receipt |-> "r2"], [Receipt |-> "r3"] >>

\* TransactionSignedNoHash::hash: the hash of the signed payload
hash(tx) ==
    CASE tx = "t0" -> "xA"
      [] tx = "t1" -> "xB"
      [] tx = "t2" -> "xC"
      [] tx = "t3" -> "xD"
      [] OTHER -> "xE"

\* TransactionSignedNoHash::with_hash: the record with its hash materialized
with_hash(tx) == [hash |-> hash(tx), transaction |-> tx]

\* TransactionSignedNoHash::recover_signer: the signer, None when the
\* signature cannot be recovered
recover_signer(tx) ==
    CASE tx = "t0" -> Some("a0")
      [] tx = "t1" -> None
      [] tx = "t2" -> Some("a2")
      [] OTHER -> Some("a3")

\* TransactionSignedNoHash::recover_signers: every signer of the batch in
\* order, None when one of them cannot be recovered
recover_signers(txs, num_txes) ==
    IF \E i \in 1..Len(txs) : ~IsSome(recover_signer(txs[i]))
    THEN None
    ELSE Some([i \in 1..Len(txs) |-> Unwrap(recover_signer(txs[i]))])

\* Header::seal
seal(header, h) == [header |-> header, hash |-> h]

\* CompactU256 -> U256
CompactU256_into(td) == td[2]

Starts == {U64(0), U64(1)}

\* The hash of the row a hash index is built over (the receipt segment
\* carries no hash index)
RowHash(segment, row) ==
    CASE segment = "Headers" -> row.BlockHash
      [] segment = "Transactions" -> hash(row.TransactionSignedNoHash)
      [] OTHER -> ""

\* The hash indexes a segment can carry: a hash stored in the segment
\* resolves to its row; a hash that is not stored resolves to nothing or,
\* the filter and the perfect hash function having false positives, to any row.
Indexes(segment, hashes, rows) ==
    { ix \in [hashes -> {None} \cup {Some(i) : i \in 0..(Len(rows) - 1)}] :
        \A i \in 1..Len(rows) :
            RowHash(segment, rows[i]) \in hashes => ix[RowHash(segment, rows[i])] = Some(i - 1) }

Jars(segment) ==
    LET contents == CASE segment = "Headers" -> {HeaderRows}
                      [] segment = "Transactions" -> {TransactionRows, TransactionRowsRecoverable}
                      [] OTHER -> {ReceiptRows}
        hashes == CASE segment = "Headers" -> BlockHashes
                    [] segment = "Transactions" -> TxHashes
                    [] OTHER -> {}
    IN  UNION { { [segment |-> segment, start |-> s, rows |-> SubSeq(all, 1, n), index |-> ix] :
                    s \in Starts, ix \in Indexes(segment, hashes, SubSeq(all, 1, n)) } :
                all \in contents, n \in 1..MaxRows }

\* ------------------------------------------------------------------ cursor
KeyFromHash(h) == <<"Key", h>>
KeyFromNumber(n) == <<"Number", n>>

\* SnapshotCursor::new
SnapshotCursor_new(jar) == [jar |-> jar, row |-> 0]

\* SnapshotCursor::number: the row key of the last decoded row
number(c) == overflowing_add(c.jar.start, U64(c.row)).val

\* The row a key resolves to, None when it resolves to none
RowOf(c, key) ==
    IF key[1] = "Key"
    THEN c.jar.index[key[2]]
    ELSE IF U64_Lt(key[2], c.jar.start)
         THEN None
         ELSE LET d == overflowing_sub(key[2], c.jar.start).val
              IN  IF IsSmall(d) /\ ToNat(d) < Len(c.jar.rows) THEN Some(ToNat(d)) ELSE None

\* SnapshotCursor::get_one: [val, cursor], the decoded column and the cursor
\* left on the decoded row
get_one(c, col, key) ==
    LET r == RowOf(c, key)
    IN  IF IsSome(r)
        THEN [val |-> Some(c.jar.rows[Unwrap(r) + 1][col]), cursor |-> [c EXCEPT !.row = Unwrap(r)]]
        ELSE [val |-> None, cursor |-> c]

\* SnapshotCursor::get_two
get_two(c, col1, col2, key) ==
    LET r == RowOf(c, key)
    IN  IF IsSome(r)
        THEN [val |-> Some(<<c.jar.rows[Unwrap(r) + 1][col1], c.jar.rows[Unwrap(r) + 1][col2]>>),
              cursor |-> [c EXCEPT !.row = Unwrap(r)]]
        ELSE [val |-> None, cursor |-> c]

\* ------------------------------------------------------------------ provider
\* From<LoadedJarRef>
from(value) == [jar |-> value, auxiliar_jar |-> None]

\* SnapshotJarProvider::cursor: a fresh cursor over the provider's segment
cursor(self) == SnapshotCursor_new(self.jar)

\* SnapshotJarProvider::with_auxiliar
with_auxiliar(self, auxiliar_jar) == [self EXCEPT !.auxiliar_jar = Some(auxiliar_jar)]

\* Every method below gives [res, cursor]: the RethResult it returns and the
\* cursor as the call left it (None when the call opened none).
Return(res, c) == [res |-> res, cursor |-> c]
NoCursor == None


\* header without the check of the decoded hash
header_unvalidated(self, block_hash) ==
    LET g == get_two(cursor(self), "Header", "BlockHash", KeyFromHash(block_hash))
    IN  Return(Ok(Map(g.val, LAMBDA p : p[1])), Some(g.cursor))

header(self, block_hash) ==
    LET g == get_two(cursor(self), "Header", "BlockHash", KeyFromHash(block_hash))
    IN  Return(Ok(Map(Filter(g.val, LAMBDA p : p[2] = block_hash), LAMBDA p : p[1])), Some(g.cursor))

header_by_number(self, num) ==
    LET g == get_one(cursor(self), "Header", KeyFromNumber(num))
    IN  Return(Ok(g.val), Some(g.cursor))

header_td(self, block_hash) ==
    LET g == get_two(cursor(self), "CompactU256", "BlockHash", KeyFromHash(block_hash))
    IN  Return(Ok(Map(Filter(g.val, LAMBDA p : p[2] = block_hash),
                      LAMBDA p : CompactU256_into(p[1]))), Some(g.cursor))

header_td_by_number(self, num) ==
    LET g == get_one(cursor(self), "CompactU256", KeyFromNumber(num))
    IN  Return(Ok(Map(g.val, CompactU256_into)), Some(g.cursor))

sealed_header(self, n) ==
    LET g == get_two(cursor(self), "Header", "BlockHash", KeyFromNumber(n))
    IN  Return(Ok(Map(g.val, LAMBDA p : seal(p[1], p[2]))), Some(g.cursor))

block_hash(self, n) ==
    LET g == get_one(cursor(self), "BlockHash", KeyFromNumber(n))
    IN  Return(Ok(g.val), Some(g.cursor))


\* block_number without the check of the decoded hash
block_number_unvalidated(self, h) ==
    LET g == get_one(cursor(self), "BlockHash", KeyFromHash(h))
    IN  Return(Ok(Map(g.val, LAMBDA res : number(g.cursor))), Some(g.cursor))

block_number(self, h) ==
    LET g == get_one(cursor(self), "BlockHash", KeyFromHash(h))
    IN  Return(Ok(AndThen(g.val, LAMBDA res : IF res = h THEN Some(number(g.cursor)) ELSE None)),
               Some(g.cursor))

\* Bound<u64>
Included(v) == <<"Included", v>>
Excluded(v) == <<"Excluded", v>>
Unbounded == <<"Unbounded">>

\* to_range: Ok([start, end]), or the panic of an overflowing `v + 1`
to_range(bounds) ==
    LET start == CASE bounds.start_bound[1] = "Included" -> Ok(bounds.start_bound[2])
                   [] bounds.start_bound[1] = "Excluded" -> Add(bounds.start_bound[2], U64(1))
                   [] OTHER -> Ok(U64(0))
        end == CASE bounds.end_bound[1] = "Included" -> Add(bounds.end_bound[2], U64(1))
                 [] bounds.end_bound[1] = "Excluded" -> Ok(bounds.end_bound[2])
                 [] OTHER -> Ok(U64_MAX)
    IN  IF ~IsOk(start) THEN start
        ELSE IF ~IsOk(end) THEN end
        ELSE Ok([start |-> start.val, end |-> end.val])

\* `as usize` on a 64-bit target
AsUsize(v) == v

\* std::mem::size_of::<T>() of the element types of the buffers, in bytes.
\* B256 is a 32-byte array; the other three are laid out by the compiler from
\* their fields (Header: six B256, an Address, two Option<B256>, a 256-byte
\* Bloom, a U256, five u64, three Option<u64> and a Bytes).
size_of(T) ==
    CASE T = "B256" -> 32
      [] T = "Header" -> 688
      [] T = "SealedHeader" -> 720
      [] T = "TransactionSignedNoHash" -> 304

\* capacity * size > isize::MAX, computed limb by limb (size < 2^15)
ExceedsIsizeMax(capacity, size) ==
    LET p4 == capacity[4] * size
        p3 == capacity[3] * size + (p4 \div Limb)
        p2 == capacity[2] * size + (p3 \div Limb)
        p1 == capacity[1] * size + (p2 \div Limb)
    IN  p1 >= Limb \div 2

\* capacity * size as a u64, for a product within isize::MAX
Bytes(capacity, size) ==
    LET p4 == capacity[4] * size
        p3 == capacity[3] * size + (p4 \div Limb)
        p2 == capacity[2] * size + (p3 \div Limb)
        p1 == capacity[1] * size + (p2 \div Limb)
    IN  <<p1 % Limb, p2 % Limb, p3 % Limb, p4 % Limb>>

\* The bytes the global allocator can serve at the time of a call, which the
\* machine decides: 2^32, and 2^47 (the address space of a 64-bit process)
Memories == {<<0, 1, 0, 0>>, <<0, Limb \div 2, 0, 0>>}

\* Vec::<T>::with_capacity: panics when the capacity in bytes exceeds
\* isize::MAX, aborts the process when the allocator cannot serve the buffer
\* (memory: the bytes it can serve), and gives an empty buffer otherwise
with_capacity(capacity, size, memory) ==
    IF ExceedsIsizeMax(capacity, size) THEN Panic("capacity overflow")
    ELSE IF U64_Lt(memory, Bytes(capacity, size)) THEN Abort("memory allocation failed")
    ELSE Ok(<<>>)

\* Vec::<T>::with_capacity((end - start) as usize)
RangeBuffer(start, end, T, memory) ==
    LET n == Sub(end, start)
    IN  IF ~IsOk(n) THEN n ELSE with_capacity(AsUsize(n.val), size_of(T), memory)

Succ(num) == overflowing_add(num, U64(1)).val

\* for num in start..end { if let Some(v) = cursor.get_one(col, num) { push(v) } }
RECURSIVE get_one_loop(_, _, _, _, _)
get_one_loop(c, col, num, end, acc) ==
    IF ~U64_Lt(num, end)
    THEN [val |-> acc, cursor |-> c]
    ELSE LET g == get_one(c, col, KeyFromNumber(num))
         IN  get_one_loop(g.cursor, col, Succ(num), end,
                          IF IsSome(g.val) THEN Append(acc, Unwrap(g.val)) ELSE acc)

\* for number in start..end { if let Some((header, hash)) = cursor.get_two(..) { push(header.seal(hash)) } }
RECURSIVE sealed_loop(_, _, _, _)
sealed_loop(c, num, end, acc) ==
    IF ~U64_Lt(num, end)
    THEN [val |-> acc, cursor |-> c]
    ELSE LET g == get_two(c, "Header", "BlockHash", KeyFromNumber(num))
         IN  sealed_loop(g.cursor, Succ(num), end,
                         IF IsSome(g.val)
                         THEN Append(acc, seal(Unwrap(g.val)[1], Unwrap(g.val)[2]))
                         ELSE acc)

headers_range(self, range, memory) ==
    LET r == to_range(range)
    IN  IF ~IsOk(r) THEN Return(r, NoCursor)
        ELSE LET headers == RangeBuffer(r.val.start, r.val.end, "Header", memory)
             IN  IF ~IsOk(headers) THEN Return(headers, Some(cursor(self)))
                 ELSE LET l == get_one_loop(cursor(self), "Header", r.val.start, r.val.end,
                                            headers.val)
                      IN  Return(Ok(l.val), Some(l.cursor))

sealed_headers_range(self, range, memory) ==
    LET r == to_range(range)
    IN  IF ~IsOk(r) THEN Return(r, NoCursor)
        ELSE LET headers == RangeBuffer(r.val.start, r.val.end, "SealedHeader", memory)
             IN  IF ~IsOk(headers) THEN Return(headers, Some(cursor(self)))
                 ELSE LET l == sealed_loop(cursor(self), r.val.start, r.val.end, headers.val)
                      IN  Return(Ok(l.val), Some(l.cursor))

canonical_hashes_range(self, start, end, memory) ==
    LET hashes == RangeBuffer(start, end, "B256", memory)
    IN  IF ~IsOk(hashes) THEN Return(hashes, Some(cursor(self)))
        ELSE LET l == get_one_loop(cursor(self), "BlockHash", start, end, hashes.val)
             IN  Return(Ok(l.val), Some(l.cursor))

chain_info(self) == Return(Err(UnsupportedProvider), NoCursor)

best_block_number(self) == Return(Err(UnsupportedProvider), NoCursor)

last_block_number(self) == Return(Err(UnsupportedProvider), NoCursor)

transaction_id(self, h) ==
    LET g == get_one(cursor(self), "TransactionSignedNoHash", KeyFromHash(h))
    IN  Return(Ok(AndThen(g.val, LAMBDA res : IF hash(res) = h THEN Some(number(g.cursor)) ELSE None)),
               Some(g.cursor))

transaction_by_id(self, num) ==
    LET g == get_one(cursor(self), "TransactionSignedNoHash", KeyFromNumber(num))
    IN  Return(Ok(Map(g.val, with_hash)), Some(g.cursor))

transaction_by_id_no_hash(self, num) ==
    LET g == get_one(cursor(self), "TransactionSignedNoHash", KeyFromNumber(num))
    IN  Return(Ok(g.val), Some(g.cursor))

transaction_by_hash(self, h) ==
    LET g == get_one(cursor(self), "TransactionSignedNoHash", KeyFromHash(h))
    IN  Return(Ok(Map(g.val, with_hash)), Some(g.cursor))

transaction_by_hash_with_meta(self, h) == Return(Err(UnsupportedProvider), NoCursor)

transaction_block(self, id) == Return(Err(UnsupportedProvider), NoCursor)

transactions_by_block(self, block_id) == Return(Err(UnsupportedProvider), NoCursor)

transactions_by_block_range(self, range) == Return(Err(UnsupportedProvider), NoCursor)

transactions_by_tx_range(self, range, memory) ==
    LET r == to_range(range)
    IN  IF ~IsOk(r) THEN Return(r, NoCursor)
        ELSE LET txes == RangeBuffer(r.val.start, r.val.end, "TransactionSignedNoHash", memory)
             IN  IF ~IsOk(txes) THEN Return(txes, Some(cursor(self)))
                 ELSE LET l == get_one_loop(cursor(self), "TransactionSignedNoHash",
                                            r.val.start, r.val.end, txes.val)
                      IN  Return(Ok(l.val), Some(l.cursor))


\* senders_by_tx_range keeping the signers it recovered and dropping the rest
senders_by_tx_range_partial(self, range, memory) ==
    LET txs == transactions_by_tx_range(self, range, memory)
    IN  IF ~IsOk(txs.res) THEN txs
        ELSE LET ok == SelectSeq(txs.res.val, LAMBDA tx : IsSome(recover_signer(tx)))
             IN  Return(Ok([i \in 1..Len(ok) |-> Unwrap(recover_signer(ok[i]))]), txs.cursor)

senders_by_tx_range(self, range, memory) ==
    LET txs == transactions_by_tx_range(self, range, memory)
    IN  IF ~IsOk(txs.res) THEN txs
        ELSE LET signers == recover_signers(txs.res.val, Len(txs.res.val))
             IN  Return(IF IsSome(signers) THEN Ok(Unwrap(signers)) ELSE Err(SenderRecoveryError),
                        txs.cursor)

transaction_sender(self, num) ==
    LET g == get_one(cursor(self), "TransactionSignedNoHash", KeyFromNumber(num))
    IN  Return(Ok(AndThen(g.val, recover_signer)), Some(g.cursor))

receipt(self, num) ==
    LET g == get_one(cursor(self), "Receipt", KeyFromNumber(num))
    IN  Return(Ok(g.val), Some(g.cursor))


\* receipt_by_hash that never consults the auxiliary provider
receipt_by_hash_without_auxiliar(self, h) == Return(Ok(None), NoCursor)

receipt_by_hash(self, h) ==
    IF IsSome(self.auxiliar_jar)
    THEN LET num == transaction_id(Unwrap(self.auxiliar_jar), h)
         IN  IF ~IsOk(num.res) THEN Return(num.res, NoCursor)
             ELSE IF IsSome(num.res.val) THEN receipt(self, Unwrap(num.res.val))
             ELSE Return(Ok(None), NoCursor)
    ELSE Return(Ok(None), NoCursor)


\* receipts_by_block answering with an empty success
receipts_by_block_empty(self, block) == Return(Ok(None), NoCursor)

receipts_by_block(self, block) == Return(Err(UnsupportedProvider), NoCursor)

\* ------------------------------------------------------------------ inputs
Nums == {U64(0), U64(1), U64(2), U64_MAX}

BoundsOver(S) ==
    {Unbounded} \cup {Included(v) : v \in S} \cup {Excluded(v) : v \in S}

RangesOver(S) == [start_bound : BoundsOver(S), end_bound : BoundsOver(S)]

\* 2^62: a span whose buffer exceeds isize::MAX bytes for every element type
Pow62 == <<Limb \div 4, 0, 0, 0>>

\* 2^40 and 2^57: spans whose buffer is within isize::MAX bytes and beyond
\* what any allocator serves (2^40 for the record types, 2^57 for B256)
Pow40 == <<0, 256, 0, 0>>

Pow57 == <<512, 0, 0, 0>>

\* Ranges over the row keys 0 and MaxSpan - 1 (a served span of at most MaxSpan
\* row keys) and u64::MAX, and two spans no buffer is allocated for
QueryRanges ==
    RangesOver({U64(0), U64(MaxSpan - 1), U64_MAX})
        \cup {[start_bound |-> Included(U64(0)), end_bound |-> Excluded(v)] : v \in {Pow40, Pow62}}

NormalizerRanges == RangesOver({U64(0), U64(1), overflowing_sub(U64_MAX, U64(1)).val, U64_MAX})

BlockIds == {<<"Hash", "hA">>, <<"Number", U64(0)>>}

\* ------------------------------------------------------------------ actions
\* A call through &self: the provider is borrowed immutably.
Called(op, arg, res) == op :> [arg |-> arg, res |-> res.tag :> res.val]

\* The last call as [op, arg, res]
last ==
    LET op == CHOOSE o \in DOMAIN ret : TRUE
        tag == CHOOSE t \in DOMAIN ret[op].res : TRUE
    IN  [op |-> op, arg |-> ret[op].arg, res |-> [tag |-> tag, val |-> ret[op].res[tag]]]

Call(op, arg, r) ==
    /\ ret' = Called(op, arg, r.res)
    /\ last_cursor' = Map(r.cursor, LAMBDA c : c.row)
    /\ UNCHANGED <<provider, overflow_checks>>

OnHeaders == provider.jar.segment = "Headers"
OnTransactions == provider.jar.segment = "Transactions"
OnReceipts == provider.jar.segment = "Receipts"

Init ==
    /\ provider \in {from(j) : j \in Jars("Headers") \cup Jars("Transactions") \cup Jars("Receipts")}
    /\ overflow_checks \in BOOLEAN
    /\ last_cursor = None
    /\ ret = Called("from", <<>>, Ok(<<>>))

\* with_auxiliar consumes the provider and gives it back with the auxiliary
\* attached: a transaction-segment provider, attached to a receipt-segment one.
WithAuxiliar ==
    /\ OnReceipts
    /\ \E j \in Jars("Transactions") :
        /\ provider' = with_auxiliar(provider, from(j))
        /\ ret' = Called("with_auxiliar", j, Ok(<<>>))
    /\ last_cursor' = NoCursor
    /\ UNCHANGED overflow_checks

HeaderCall ==
    OnHeaders /\ \E h \in BlockHashes : Call("header", h, header(provider, h))

HeaderByNumber ==
    OnHeaders /\ \E n \in Nums : Call("header_by_number", n, header_by_number(provider, n))

HeaderTd ==
    OnHeaders /\ \E h \in BlockHashes : Call("header_td", h, header_td(provider, h))

HeaderTdByNumber ==
    OnHeaders /\ \E n \in Nums : Call("header_td_by_number", n, header_td_by_number(provider, n))

HeadersRange ==
    OnHeaders /\ \E r \in QueryRanges, memory \in Memories :
        Call("headers_range", r, headers_range(provider, r, memory))

SealedHeadersRange ==
    OnHeaders /\ \E r \in QueryRanges, memory \in Memories :
        Call("sealed_headers_range", r, sealed_headers_range(provider, r, memory))

SealedHeader ==
    OnHeaders /\ \E n \in Nums : Call("sealed_header", n, sealed_header(provider, n))

BlockHash ==
    OnHeaders /\ \E n \in Nums : Call("block_hash", n, block_hash(provider, n))

CanonicalHashesRange ==
    OnHeaders /\ \E start \in Nums, end \in Nums \cup {Pow57, Pow62}, memory \in Memories :
        Call("canonical_hashes_range", <<start, end>>,
                canonical_hashes_range(provider, start, end, memory))

ChainInfo == Call("chain_info", <<>>, chain_info(provider))

BestBlockNumber == Call("best_block_number", <<>>, best_block_number(provider))

LastBlockNumber == Call("last_block_number", <<>>, last_block_number(provider))

BlockNumber ==
    OnHeaders /\ \E h \in BlockHashes : Call("block_number", h, block_number(provider, h))

TransactionId ==
    OnTransactions /\ \E h \in TxHashes : Call("transaction_id", h, transaction_id(provider, h))

TransactionById ==
    OnTransactions /\ \E n \in Nums : Call("transaction_by_id", n, transaction_by_id(provider, n))

TransactionByIdNoHash ==
    OnTransactions /\ \E n \in Nums :
        Call("transaction_by_id_no_hash", n, transaction_by_id_no_hash(provider, n))

TransactionByHash ==
    OnTransactions /\ \E h \in TxHashes :
        Call("transaction_by_hash", h, transaction_by_hash(provider, h))

TransactionByHashWithMeta ==
    \E h \in TxHashes :
        Call("transaction_by_hash_with_meta", h, transaction_by_hash_with_meta(provider, h))

TransactionBlock ==
    \E n \in Nums : Call("transaction_block", n, transaction_block(provider, n))

TransactionsByBlock ==
    \E b \in BlockIds : Call("transactions_by_block", b, transactions_by_block(provider, b))

TransactionsByBlockRange ==
    \E r \in RangesOver({U64(0)}) :
        Call("transactions_by_block_range", r, transactions_by_block_range(provider, r))

SendersByTxRange ==
    OnTransactions /\ \E r \in QueryRanges, memory \in Memories :
        Call("senders_by_tx_range", r, senders_by_tx_range(provider, r, memory))

TransactionsByTxRange ==
    OnTransactions /\ \E r \in QueryRanges, memory \in Memories :
        Call("transactions_by_tx_range", r, transactions_by_tx_range(provider, r, memory))

TransactionSender ==
    OnTransactions /\ \E n \in Nums : Call("transaction_sender", n, transaction_sender(provider, n))

ReceiptCall ==
    OnReceipts /\ \E n \in Nums : Call("receipt", n, receipt(provider, n))


\* receipt_by_hash taking the auxiliary provider out of the provider
ReceiptByHash_TakesAuxiliar ==
    /\ OnReceipts
    /\ \E h \in TxHashes :
        /\ ret' = Called("receipt_by_hash", h, receipt_by_hash(provider, h).res)
        /\ last_cursor' = Map(receipt_by_hash(provider, h).cursor, LAMBDA c : c.row)
    /\ provider' = from(provider.jar)
    /\ UNCHANGED overflow_checks

ReceiptByHash ==
    OnReceipts /\ \E h \in TxHashes : Call("receipt_by_hash", h, receipt_by_hash(provider, h))

ReceiptsByBlock ==
    \E b \in BlockIds : Call("receipts_by_block", b, receipts_by_block(provider, b))

\* The range normalizer on its own
ToRange ==
    \E r \in NormalizerRanges :
        Call("to_range", r, Return(to_range(r), NoCursor))

Next ==
    \/ WithAuxiliar
    \/ HeaderCall
    \/ HeaderByNumber
    \/ HeaderTd
    \/ HeaderTdByNumber
    \/ HeadersRange
    \/ SealedHeadersRange
    \/ SealedHeader
    \/ BlockHash
    \/ CanonicalHashesRange
    \/ ChainInfo
    \/ BestBlockNumber
    \/ LastBlockNumber
    \/ BlockNumber
    \/ TransactionId
    \/ TransactionById
    \/ TransactionByIdNoHash
    \/ TransactionByHash
    \/ TransactionByHashWithMeta
    \/ TransactionBlock
    \/ TransactionsByBlock
    \/ TransactionsByBlockRange
    \/ SendersByTxRange
    \/ TransactionsByTxRange
    \/ TransactionSender
    \/ ReceiptCall
    \/ ReceiptByHash
    \/ ReceiptsByBlock

Spec == Init /\ [][Next]_vars

\* The range normalizer applied to every pair of bounds
SpecToRange == Init /\ [][ToRange]_vars

\* ------------------------------------------------------------------ claims
\* r is the result e: the tag first, the values of two tags being of two kinds
Is(r, e) == r.tag = e.tag /\ r.val = e.val

\* What the segment stores, read off its rows without a cursor.
KeyOfRow(jar, i) == overflowing_add(jar.start, U64(i - 1)).val

Stored(jar, h) == \E i \in 1..Len(jar.rows) : RowHash(jar.segment, jar.rows[i]) = h

\* The rows of the segment whose row key lies in [start, end), in row-key order
RowsIn(jar, start, end) ==
    SelectSeq([i \in 1..Len(jar.rows) |-> i],
              LAMBDA i : U64_Le(start, KeyOfRow(jar, i)) /\ U64_Lt(KeyOfRow(jar, i), end))

\* The number of row keys of [start, end), when it is below 2^16
SpanIs(start, end, n) ==
    IF U64_Lt(start, end)
    THEN overflowing_sub(end, start).val = U64(n)
    ELSE n = 0

HashKeyed == {"header", "header_td", "block_number", "transaction_id"}

Unsupported ==
    {"chain_info", "best_block_number", "last_block_number", "transaction_by_hash_with_meta",
     "transaction_block", "transactions_by_block", "transactions_by_block_range",
     "receipts_by_block"}

RangeQueries ==
    {"headers_range", "sealed_headers_range", "transactions_by_tx_range"}

\* C1: transaction_by_hash(h) returns a transaction only when the record the
\* hash index resolved to has the hash h, as transaction_id(h) does, and never
\* a transaction whose hash differs from h.
C1_TransactionByHashValidates ==
    last.op = "transaction_by_hash" =>
        /\ IsOk(last.res)
        /\ IsSome(last.res.val) => Unwrap(last.res.val).hash = last.arg
        /\ IsSome(last.res.val) <=> IsSome(transaction_id(provider, last.arg).res.val)

\* C2: for a hash h that no row of the segment stores, header(h), header_td(h),
\* block_number(h) and transaction_id(h) return not-found, also when the hash
\* index resolves h to a row; what they return is never taken from a row whose
\* hash differs from h.
C2_AbsentHashNotFound ==
    last.op \in HashKeyed =>
        /\ IsOk(last.res)
        /\ ~Stored(provider.jar, last.arg) => last.res.val = None
        /\ IsSome(last.res.val) =>
            \E i \in 1..Len(provider.jar.rows) :
                /\ RowHash(provider.jar.segment, provider.jar.rows[i]) = last.arg
                /\ Unwrap(last.res.val) =
                    CASE last.op = "header" -> provider.jar.rows[i].Header
                      [] last.op = "header_td" -> provider.jar.rows[i].CompactU256[2]
                      [] OTHER -> KeyOfRow(provider.jar, i)

C2_Witness ==
    /\ last.op \in HashKeyed
    /\ ~Stored(provider.jar, last.arg)
    /\ IsSome(provider.jar.index[last.arg])
    /\ Is(last.res, Ok(None))

\* C3 as stated: senders_by_tx_range(range) returns exactly |range| addresses
\* or fails the whole call.
C3_SendersOnePerRowKey ==
    (last.op = "senders_by_tx_range" /\ IsOk(last.res)) =>
        LET r == to_range(last.arg).val
        IN  SpanIs(r.start, r.end, Len(last.res.val))

\* The row key k lies in the range the bounds denote (an unbounded end is the
\* maximum row key, exclusive)
InBounds(bounds, k) ==
    /\ CASE bounds.start_bound[1] = "Included" -> U64_Le(bounds.start_bound[2], k)
          [] bounds.start_bound[1] = "Excluded" -> U64_Lt(bounds.start_bound[2], k)
          [] OTHER -> TRUE
    /\ CASE bounds.end_bound[1] = "Included" -> U64_Le(k, bounds.end_bound[2])
          [] bounds.end_bound[1] = "Excluded" -> U64_Lt(k, bounds.end_bound[2])
          [] OTHER -> U64_Lt(k, U64_MAX)

\* An included end or an excluded start at u64::MAX: the bounds whose
\* normalization overflows
BoundAtMax(bounds) ==
    \/ bounds.end_bound = Included(U64_MAX)
    \/ bounds.start_bound = Excluded(U64_MAX)

\* C3 amended: for a range whose bounds normalize without overflow,
\* senders_by_tx_range(range) returns exactly one address per record the
\* segment stores at a row key of the range, in row-key order, or fails the
\* whole call: with a validation error when a stored record of the range has
\* no recoverable signer (or with the panic or abort of the buffer's
\* allocation), never with a shorter list of the signers it found.
C3_SendersOnePerStoredRecord ==
    (/\ last.op = "senders_by_tx_range"
     /\ ~BoundAtMax(last.arg)
     /\ last.res.tag \in {"Ok", "Err"}) =>
        LET rows == SelectSeq([i \in 1..Len(provider.jar.rows) |-> i],
                              LAMBDA i : InBounds(last.arg, KeyOfRow(provider.jar, i)))
            signer(i) == recover_signer(provider.jar.rows[rows[i]].TransactionSignedNoHash)
        IN  IF \A i \in 1..Len(rows) : IsSome(signer(i))
            THEN Is(last.res, Ok([i \in 1..Len(rows) |-> Unwrap(signer(i))]))
            ELSE Is(last.res, Err(SenderRecoveryError))

\* Two stored records in a range of three row keys: two addresses, in
\* row-key order
C3_Witness ==
    /\ last.op = "senders_by_tx_range"
    /\ last.arg = [start_bound |-> Unbounded, end_bound |-> Included(U64(2))]
    /\ provider.jar.start = U64(0)
    /\ Len(provider.jar.rows) = 2
    /\ Is(last.res, Ok(<<"a0", "a2">>))

\* C4: without an auxiliary provider receipt_by_hash(h) returns not-found;
\* with one it returns what receipt(k) returns when the auxiliary's
\* transaction_id(h) resolves to k, and not-found when it does not resolve.
C4_ReceiptByHash ==
    last.op = "receipt_by_hash" =>
        IF ~IsSome(provider.auxiliar_jar)
        THEN Is(last.res, Ok(None))
        ELSE LET aux == Unwrap(provider.auxiliar_jar).jar
                 k == IF Stored(aux, last.arg)
                      THEN Some(KeyOfRow(aux, CHOOSE i \in 1..Len(aux.rows) :
                                                  RowHash(aux.segment, aux.rows[i]) = last.arg))
                      ELSE None
             IN  /\ Is(transaction_id(Unwrap(provider.auxiliar_jar), last.arg).res, Ok(k))
                 /\ Is(last.res, IF IsSome(k) THEN receipt(provider, Unwrap(k)).res ELSE Ok(None))

C4_Witness ==
    /\ last.op = "receipt_by_hash"
    /\ IsSome(provider.auxiliar_jar)
    /\ IsOk(last.res)
    /\ IsSome(last.res.val)
    /\ Unwrap(provider.auxiliar_jar).jar.start # provider.jar.start

\* C5: the eight queries a single segment cannot answer always fail with the
\* unsupported-by-provider error, with or without an auxiliary provider, and
\* open no cursor on the segment.
C5_UnsupportedAlwaysFails ==
    last.op \in Unsupported => Is(last.res, Err(UnsupportedProvider)) /\ last_cursor = None

C5_Witness ==
    /\ last.op = "receipts_by_block"
    /\ IsSome(provider.auxiliar_jar)
    /\ Is(last.res, Err(UnsupportedProvider))

\* C6: for a <= b, headers_range(a..b) returns exactly the headers
\* header_by_number(n) gives at the row keys n of [a, b) that hold one, in
\* ascending row-key order, skipping the absent rows.
C6_HeadersRangeReturnsPresent ==
    (/\ last.op = "headers_range"
     /\ last.arg.start_bound[1] = "Included"
     /\ last.arg.end_bound[1] = "Excluded"
     /\ U64_Le(last.arg.start_bound[2], last.arg.end_bound[2])) =>
        LET rows == RowsIn(provider.jar, last.arg.start_bound[2], last.arg.end_bound[2])
        IN  Is(last.res, Ok([i \in 1..Len(rows) |->
                            Unwrap(header_by_number(provider, KeyOfRow(provider.jar, rows[i])).res.val)]))

\* headers_range on the spans whose buffer it can allocate: the part of C6
\* the code keeps.
HeadersRangeSkipsAbsentRows ==
    (/\ last.op = "headers_range"
     /\ last.arg.start_bound[1] = "Included"
     /\ last.arg.end_bound[1] = "Excluded"
     /\ U64_Le(last.arg.start_bound[2], last.arg.end_bound[2])
     /\ last.res.tag \in {"Ok", "Err"}) =>
        LET rows == RowsIn(provider.jar, last.arg.start_bound[2], last.arg.end_bound[2])
        IN  Is(last.res, Ok([i \in 1..Len(rows) |->
                            Unwrap(header_by_number(provider, KeyOfRow(provider.jar, rows[i])).res.val)]))

HeadersRangeGapReached ==
    /\ last.op = "headers_range"
    /\ last.arg = [start_bound |-> Included(U64(0)), end_bound |-> Excluded(U64(2))]
    /\ provider.jar.start = U64(1)
    /\ Is(last.res, Ok(<<"H0">>))

\* C7: to_range gives the half-open range of its bounds without arithmetic
\* overflow: 0 for an unbounded start, v + 1 for an excluded start v, v + 1
\* for an included end v, v for an excluded end v, the maximum row key for an
\* unbounded end.
C7_ToRangeNoOverflow ==
    last.op = "to_range" =>
        /\ IsOk(last.res)
        /\ CASE last.arg.start_bound[1] = "Included" -> last.res.val.start = last.arg.start_bound[2]
             [] last.arg.start_bound[1] = "Excluded" ->
                    /\ U64_Lt(last.arg.start_bound[2], last.res.val.start)
                    /\ overflowing_sub(last.res.val.start, last.arg.start_bound[2]).val = U64(1)
             [] OTHER -> last.res.val.start = U64(0)
        /\ CASE last.arg.end_bound[1] = "Included" ->
                    /\ U64_Lt(last.arg.end_bound[2], last.res.val.end)
                    /\ overflowing_sub(last.res.val.end, last.arg.end_bound[2]).val = U64(1)
             [] last.arg.end_bound[1] = "Excluded" -> last.res.val.end = last.arg.end_bound[2]
             [] OTHER -> last.res.val.end = U64_MAX

\* to_range on bounds below the maximum row key: the part of C7 the code keeps.
ToRangeBelowMax ==
    (/\ last.op = "to_range"
     /\ last.arg.start_bound # Excluded(U64_MAX)
     /\ last.arg.end_bound # Included(U64_MAX)) => C7_ToRangeNoOverflow

\* C8: a query leaves the provider as it was, its segment and its auxiliary,
\* and header_by_number(n) gives after it what it gave before it: the header
\* the segment stores at n, whatever row the last call left its cursor on.
C8_QueriesLeaveProviderUnchanged ==
    [][last'.op # "with_auxiliar" =>
        /\ provider' = provider
        /\ OnHeaders =>
            \A n \in Nums :
                Is(header_by_number(provider', n).res, header_by_number(provider, n).res)
        /\ last'.op = "header_by_number" =>
            Is(last'.res, Ok(IF \E i \in 1..Len(provider.jar.rows) : KeyOfRow(provider.jar, i) = last'.arg
                            THEN Some(provider.jar.rows[
                                     CHOOSE i \in 1..Len(provider.jar.rows) :
                                         KeyOfRow(provider.jar, i) = last'.arg].Header)
                            ELSE None))]_vars

C8_Witness ==
    /\ last.op = "header_by_number"
    /\ Is(last.res, Ok(Some("H0")))
    /\ last.arg = U64(1)
    /\ last_cursor = Some(0)

\* C9: block_number(h) returns the row key its cursor was left on, and only
\* when the hash decoded there is h: when it returns n, block_hash(n) is h and
\* header(h) is the header header_by_number(n) returns.
C9_BlockNumberIsRowOfHash ==
    (last.op = "block_number" /\ IsOk(last.res) /\ IsSome(last.res.val)) =>
        LET n == Unwrap(last.res.val)
        IN  /\ IsSome(last_cursor)
            /\ n = number([jar |-> provider.jar, row |-> Unwrap(last_cursor)])
            /\ Is(block_hash(provider, n).res, Ok(Some(last.arg)))
            /\ IsSome(header(provider, last.arg).res.val)
            /\ Is(header(provider, last.arg).res, header_by_number(provider, n).res)

C9_Witness ==
    /\ last.op = "block_number"
    /\ last.arg = "hB"
    /\ Is(last.res, Ok(Some(U64(2))))

\* C10: a range query whose normalized start is greater than its end returns
\* an empty list and does not fail.
C10_InvertedRangeIsEmpty ==
    /\ (/\ last.op \in RangeQueries
        /\ IsOk(to_range(last.arg))
        /\ U64_Lt(to_range(last.arg).val.end, to_range(last.arg).val.start)) =>
            Is(last.res, Ok(<<>>))
    /\ (last.op = "canonical_hashes_range" /\ U64_Lt(last.arg[2], last.arg[1])) =>
            Is(last.res, Ok(<<>>))

====
